---- MODULE Spec2Model ----
(***************************************************************************)
(* Birth-death engine of bdld (src/bdld/actions/birth_death.py).           *)
(*                                                                         *)
(* Python values are represented as follows.                               *)
(*   Optional[x]   <<>> for None, <<x>> for a value                        *)
(*   float         a record [t, v]: t = "fin" with v an integer in fixed   *)
(*                 point, or t = "-inf" / "+inf" / "nan"                   *)
(*   list index    0-based, as in the source                               *)
(*   object        a particle record carries the identity obj of the       *)
(*                 Python object it is; two list slots with the same obj   *)
(*                 are the same object (identities are named canonically   *)
(*                 by the smallest slot that refers to the object)         *)
(* Fixed point: densities and probabilities are in 1/Scale, logarithms in  *)
(* 1/LogUnit, betas in 1/BetaUnit (so that the mean over at most MaxPart   *)
(* entries is exact).                                                      *)
(***************************************************************************)
EXTENDS Integers, Sequences, FiniteSets, TLC

\* ---- bounds of the model
MaxPart == 3        \* particles in the list: 1..MaxPart
SmallPart == 2      \* particles in the list when the arguments are not MainArgs
MaxPos == 1         \* positions are integers 0..MaxPos (one dimension)
MaxEnergy == 1      \* energies are integers 0..MaxEnergy
MaxDraws == 4       \* generator calls after which no further selection is started
MaxStep == 1        \* run(step) is called with step in 0..MaxStep

\* ---- program constants
PdistLimit == 10000 \* walker_density: pdist strategy up to this many walkers
SparseLimit == 101  \* correction grids are stored with at most 101 points per axis

\* ---- fixed point
Scale == 10 * 100
LogUnit == 2 * 2
LogMax == 10 * LogUnit

RECURSIVE Factorial(_)
Factorial(k) == IF k <= 1 THEN 1 ELSE k * Factorial(k - 1)

Fine == Factorial(MaxPart)
BetaUnit == LogUnit * Fine

\* ---- floats
Fin(x) == [t |-> "fin", v |-> x]
NegInf == [t |-> "-inf", v |-> 0]
PosInf == [t |-> "+inf", v |-> 0]
NaN == [t |-> "nan", v |-> 0]

IsFin(a) == a.t = "fin"

\* a + b of IEEE floats
FAdd(a, b) ==
    IF a.t = "nan" \/ b.t = "nan" THEN NaN
    ELSE IF a.t = "fin" /\ b.t = "fin" THEN Fin(a.v + b.v)
    ELSE IF a.t = "fin" THEN b
    ELSE IF b.t = "fin" THEN a
    ELSE IF a.t = b.t THEN a ELSE NaN

FNeg(a) ==
    IF a.t = "fin" THEN Fin(-a.v)
    ELSE IF a.t = "-inf" THEN PosInf
    ELSE IF a.t = "+inf" THEN NegInf ELSE NaN

FSub(a, b) == FAdd(a, FNeg(b))

\* a > 0 and a < 0 of IEEE floats (both are false of nan)
FPos(a) == a.t = "+inf" \/ (a.t = "fin" /\ a.v > 0)
FNegative(a) == a.t = "-inf" \/ (a.t = "fin" /\ a.v < 0)

Abs(x) == IF x < 0 THEN -x ELSE x
Min(S) == CHOOSE x \in S : \A y \in S : x <= y
Max(S) == CHOOSE x \in S : \A y \in S : y <= x

\* exp(-y / LogUnit) in 1/Scale, for y in 0..LogMax; 0 beyond (underflow)
RECURSIVE ExpStep(_)
ExpStep(y) == IF y = 0 THEN Scale ELSE (ExpStep(y - 1) * 7788) \div 10000
ExpTab == [y \in 0..LogMax |-> ExpStep(y)]
ExpNeg(y) == IF y > LogMax THEN 0 ELSE ExpTab[y]

\* log(x / Scale) in 1/LogUnit for x in 1..2*Scale (rounded towards -infinity)
LogTab ==
    [x \in 1..(2 * Scale) |->
        IF x >= Scale
        THEN Max({y \in 0..LogMax : (x * ExpNeg(y)) \div Scale >= Scale})
        ELSE -Min({y \in 0..(LogMax + 1) : ExpNeg(y) <= x})]

\* np.log of a value in 1/Scale, as a float in 1/LogUnit
Log(a) ==
    IF a.t = "nan" THEN NaN
    ELSE IF a.t = "+inf" THEN PosInf
    ELSE IF a.t = "-inf" THEN NaN
    ELSE IF a.v < 0 THEN NaN
    ELSE IF a.v = 0 THEN NegInf
    ELSE Fin(LogTab[IF a.v > 2 * Scale THEN 2 * Scale ELSE a.v])

RECURSIVE SumSeq(_)
SumSeq(s) == IF s = <<>> THEN 0 ELSE Head(s) + SumSeq(Tail(s))

\* the elements of a finite set of integers in increasing order
RECURSIVE Sorted(_)
Sorted(S) == IF S = {} THEN <<>> ELSE <<Min(S)>> \o Sorted(S \ {Min(S)})

\* ---- Optional
NoneVal == <<>>
Some(x) == <<x>>
\* Python truthiness of an Optional[int] / Optional[str] / Optional[object]
TruthyNum(o) == o # <<>> /\ o[1] # 0
TruthyStr(o) == o # <<>> /\ o[1] # ""
TruthyObj(o) == o # <<>>

\* ---- particles (BpldParticle objects in the list shared with the MD)
PosSet == 0..MaxPos
EnergySet == 0..MaxEnergy
ParticleValues == [pos : PosSet, energy : EnergySet]

Indices(parts) == DOMAIN parts
NumPart(parts) == Cardinality(DOMAIN parts)
Val(p) == [pos |-> p.pos, energy |-> p.energy]

\* a list of n distinct particle objects with the given values
NewParticles(vals) ==
    [i \in DOMAIN vals |-> [obj |-> i, pos |-> vals[i].pos, energy |-> vals[i].energy]]

\* canonical names of the objects of a list: the smallest slot that holds the object
Canon(parts) ==
    [i \in DOMAIN parts |->
        [parts[i] EXCEPT !.obj = Min({j \in DOMAIN parts : parts[j].obj = parts[i].obj})]]

\* an in-place change of the object in slot i (seen through every slot that holds it)
Mutate(parts, i, v) ==
    [j \in DOMAIN parts |->
        IF parts[j].obj = parts[i].obj
        THEN [obj |-> parts[j].obj, pos |-> v.pos, energy |-> v.energy]
        ELSE parts[j]]

\* ---- kernel and density
\* 1 / (sqrt(2 pi) * b) in 1/Scale, b # 0
Height(b) ==
    IF b > 0 THEN (Scale * 3989) \div (10000 * b)
    ELSE -((Scale * 3989) \div (10000 * (-b)))

\* dist^2 / (2 b^2) in 1/LogUnit, b # 0
Exponent(d, b) == (LogUnit * d * d) \div (2 * b * b)

RECURSIVE ProdHeights(_)
ProdHeights(bw) ==
    IF bw = <<>> THEN Scale
    ELSE IF (Head(bw) > 0) = (ProdHeights(Tail(bw)) >= 0)
         THEN (Abs(Height(Head(bw))) * Abs(ProdHeights(Tail(bw)))) \div Scale
         ELSE -((Abs(Height(Head(bw))) * Abs(ProdHeights(Tail(bw)))) \div Scale)

RECURSIVE SumExponents(_, _)
SumExponents(d, bw) ==
    IF bw = <<>> THEN 0 ELSE Exponent(d, Head(bw)) + SumExponents(d, Tail(bw))

\* calc_kernel for a one-dimensional distance d: the prefactor and the exponent run
\* over every entry of bw (numpy broadcasts dist against bw); bw entries # 0
calc_kernel(d, bw) ==
    LET h == ProdHeights(bw)
        e == ExpNeg(SumExponents(d, bw))
    IN  IF h >= 0 THEN (h * e) \div Scale ELSE -(((-h) * e) \div Scale)

\* np.mean of a list of fixed-point numbers
MeanInt(s) ==
    LET t == SumSeq(s)
    IN  IF t >= 0 THEN t \div Len(s) ELSE -((-t) \div Len(s))

PosDiffs(pos, i) == [k \in 1..Cardinality(DOMAIN pos) |-> pos[i] - pos[k - 1]]

\* _walker_density_pdist, n_dim = 1: only bw[0] is read. With bw[0] = 0 the height is
\* inf and every off-diagonal entry nan (inf * 0 or exp(0/0)); with bw[0] < 0 the
\* height and all entries are negative
walker_density_pdist(pos, bw) ==
    LET n == Cardinality(DOMAIN pos)
        b == bw[1]
        gauss(i, j) ==
            IF i = j THEN Height(b)
            ELSE IF Height(b) >= 0
                 THEN (Height(b) * ExpNeg(Exponent(pos[i] - pos[j], b))) \div Scale
                 ELSE -(((-Height(b)) * ExpNeg(Exponent(pos[i] - pos[j], b))) \div Scale)
    IN  [i \in DOMAIN pos |->
            IF b = 0 THEN (IF n = 1 THEN PosInf ELSE NaN)
            ELSE Fin(MeanInt([k \in 1..n |-> gauss(i, k - 1)]))]

\* _walker_density_manual: calc_kernel of the distances to every walker, averaged
walker_density_manual(pos, bw) ==
    LET n == Cardinality(DOMAIN pos)
    IN  [i \in DOMAIN pos |->
            IF \E k \in 1..Len(bw) : bw[k] = 0 THEN NaN
            ELSE Fin(MeanInt([k \in 1..n |-> calc_kernel(PosDiffs(pos, i)[k], bw)]))]

walker_density(pos, bw) ==
    IF Cardinality(DOMAIN pos) <= PdistLimit
    THEN walker_density_pdist(pos, bw)
    ELSE walker_density_manual(pos, bw)

\* ---- kernel and density for positions of n_dim coordinates (pos[i] a sequence)
\* np.prod of fixed-point numbers
RECURSIVE ProdFixed(_)
ProdFixed(s) == IF s = <<>> THEN Scale ELSE (Head(s) * ProdFixed(Tail(s))) \div Scale

\* np.sum(dist**2 / (2 * bw**2), axis=1) of one row of dist
SumExponentsNd(d, bw) == SumSeq([k \in 1..Len(bw) |-> Exponent(d[k], bw[k])])

\* calc_kernel of one row of dist with n_dim = len(bw) entries, bw > 0
calc_kernel_nd(d, bw) == (ProdHeights(bw) * ExpNeg(SumExponentsNd(d, bw))) \div Scale

\* _walker_density_manual for positions of len(bw) coordinates, bw > 0
walker_density_manual_nd(pos, bw) ==
    LET n == Cardinality(DOMAIN pos)
        dist(i) == [j \in 1..n |-> [k \in 1..Len(bw) |-> pos[i][k] - pos[j - 1][k]]]
    IN  [i \in DOMAIN pos |-> Fin(MeanInt([j \in 1..n |-> calc_kernel_nd(dist(i)[j], bw)]))]

\* _walker_density_pdist without np.fill_diagonal: the diagonal is left at 0
walker_density_pdist_nofill(pos, bw) ==
    LET n == Cardinality(DOMAIN pos)
        n_dim == Len(pos[0])
        gauss_per_dim(i, j) ==
            [k \in 1..n_dim |->
                (Height(bw[k]) * ExpNeg(Exponent(pos[i][k] - pos[j][k], bw[k]))) \div Scale]
        gauss(i, j) == IF i = j THEN 0 ELSE ProdFixed(gauss_per_dim(i, j))
    IN  [i \in DOMAIN pos |-> Fin(MeanInt([j \in 1..n |-> gauss(i, j - 1)]))]

\* _walker_density_pdist for positions of n_dim coordinates, bw > 0: the 1d version,
\* or the product over the axes of the per-axis Gaussians with the product of the
\* heights on the diagonal
walker_density_pdist_nd(pos, bw) ==
    LET n == Cardinality(DOMAIN pos)
        n_dim == Len(pos[0])
        heights == [k \in 1..n_dim |-> Height(bw[k])]
        gauss_per_dim(i, j) ==
            [k \in 1..n_dim |->
                (heights[k] * ExpNeg(Exponent(pos[i][k] - pos[j][k], bw[k]))) \div Scale]
        gauss(i, j) == IF i = j THEN ProdFixed(heights) ELSE ProdFixed(gauss_per_dim(i, j))
    IN  IF n_dim = 1
        THEN walker_density_pdist([i \in DOMAIN pos |-> pos[i][1]], bw)
        ELSE [i \in DOMAIN pos |-> Fin(MeanInt([j \in 1..n |-> gauss(i, j - 1)]))]

\* ---- grids (bdld.grid.Grid, one axis): n_points, the range lo..hi and the values
\*      the grid interpolates to at the integer positions of its range
GridData(g, f) == [n_points |-> g.n_points, lo |-> g.lo, hi |-> g.hi,
                   data |-> [x \in g.lo..g.hi |-> f[x]]]

\* grid.interpolate(pos, "linear", fill) at one position
grid_interpolate(g, x, fill) == IF x \in g.lo..g.hi THEN g.data[x] ELSE fill

\* grid.convolve(g, kernel, mode = "same", method = "direct"); kernel given by its
\* half width and its values at the distances -half..half
grid_convolve(g, half, kern) ==
    LET term(x, y) == (g.data[y].v * kern[x - y]) \div Scale
        near(x) == Sorted({y \in g.lo..g.hi : Abs(x - y) <= half})
        at(x) == Fin(SumSeq([k \in 1..Len(near(x)) |-> term(x, near(x)[k])]))
    IN  GridData(g, [x \in g.lo..g.hi |-> at(x)])

\* grid.sparsify(g, [npts], "linear"): at most npts points per axis
grid_sparsify(g, npts) ==
    IF \A k \in 1..Len(g.n_points) : g.n_points[k] <= npts THEN g
    ELSE [g EXCEPT !.n_points = [k \in 1..Len(g.n_points) |-> npts]]

\* dens_kernel_convolution: kernel cut off at 5 sigma, on the density's step size
dens_kernel_convolution(eq_density, bw) ==
    LET half == 5 * bw[1]
        kern == [d \in (-half)..half |-> calc_kernel(d, bw)]
    IN  grid_convolve(eq_density, half, kern)

\* x / y of two floats in 1/Scale, y finite and >= 0, x finite
FDiv(x, y) ==
    IF x.t # "fin" \/ y.t # "fin" THEN NaN
    ELSE IF y.v = 0 THEN (IF x.v = 0 THEN NaN ELSE IF x.v > 0 THEN PosInf ELSE NegInf)
    ELSE IF x.v >= 0 THEN Fin((x.v * Scale) \div y.v)
    ELSE Fin(-(((-x.v) * Scale) \div y.v))

\* nd_trapz over one axis with step 1: the sum of (f[k] + f[k+1]) / 2
nd_trapz(g, f) ==
    LET t == SumSeq([k \in 1..(g.hi - g.lo) |-> f[g.lo + k - 1] + f[g.lo + k]])
    IN  IF t >= 0 THEN t \div 2 ELSE -((-t) \div 2)

\* calc_additive_correction up to line 465 (conv_mode "same"): -log(K*pi / pi) + its
\* pi-average, in 1/LogUnit, on the grid of the convolution
additive_correction_grid(eq_density, bw) ==
    LET conv == dens_kernel_convolution(eq_density, bw)
        log_term(x) == Log(FDiv(conv.data[x], eq_density.data[x]))
        allfin == \A x \in conv.lo..conv.hi : IsFin(log_term(x))
        weighted(x) ==
            IF log_term(x).v >= 0
            THEN (log_term(x).v * eq_density.data[x].v) \div Scale
            ELSE -(((-log_term(x).v) * eq_density.data[x].v) \div Scale)
        integral_term ==
            IF allfin THEN Fin(nd_trapz(conv, [x \in conv.lo..conv.hi |-> weighted(x)]))
            ELSE NaN
        corr(x) == FAdd(FNeg(log_term(x)), integral_term)
    IN  GridData(conv, [x \in conv.lo..conv.hi |-> corr(x)])

\* a correction that is returned however many points it has
sparsify_never(correction) == correction

\* if any(n > 101 for n in correction.n_points): grid.sparsify(correction, [101] * n_dim)
sparsify_if_large(correction) ==
    IF \E k \in 1..Len(correction.n_points) : correction.n_points[k] > SparseLimit
    THEN grid_sparsify(correction, SparseLimit)
    ELSE correction

\* calc_additive_correction
calc_additive_correction(eq_density, bw) ==
    sparsify_if_large(additive_correction_grid(eq_density, bw))

\* -np.log(grid): the grid of the negated logarithms, in 1/LogUnit
neg_log_grid(g) == GridData(g, [x \in g.lo..g.hi |-> FNeg(Log(g.data[x]))])

\* the multiplicative correction: -log(sparsify(K*pi)), in 1/LogUnit
calc_multiplicative_correction(eq_density, bw) ==
    neg_log_grid(grid_sparsify(dens_kernel_convolution(eq_density, bw), SparseLimit))

\* equilibrium densities handed to the constructor
EqDensities ==
    { [n_points |-> <<2>>, lo |-> 0, hi |-> 1,
       data |-> [x \in 0..1 |-> IF x = 0 THEN Fin(6 * (Scale \div 10)) ELSE Fin(4 * (Scale \div 10))]] }

\* ---- engine (BirthDeath)
\* a value in 1/LogUnit as a value in 1/BetaUnit
ToBeta(a) == IF a.t = "fin" THEN Fin(a.v * Fine) ELSE a

\* ene * inv_kt in 1/BetaUnit, inv_kt = 1 / kt (kt # 0 divides LogUnit)
EnergyTerm(ene, kt) ==
    IF kt > 0 THEN Fin((ene * BetaUnit) \div kt) ELSE Fin(-((ene * BetaUnit) \div (-kt)))

\* np.mean(beta): the mean over every entry
MeanOfAll(beta) ==
    LET idx == Sorted(DOMAIN beta)
    IN  IF \E i \in DOMAIN beta : beta[i].t = "nan" THEN NaN
        ELSE IF (\E i \in DOMAIN beta : beta[i].t = "+inf") /\ (\E i \in DOMAIN beta : beta[i].t = "-inf")
        THEN NaN
        ELSE IF \E i \in DOMAIN beta : beta[i].t = "+inf" THEN PosInf
        ELSE IF \E i \in DOMAIN beta : beta[i].t = "-inf" THEN NegInf
        ELSE Fin(MeanInt([k \in 1..Len(idx) |-> beta[idx[k]].v]))

\* np.mean(beta[beta != -np.inf]): nan of an empty selection or of one holding nan
MeanNotNegInf(beta) ==
    LET sel == {i \in DOMAIN beta : beta[i].t # "-inf"}
        idx == Sorted(sel)
    IN  IF sel = {} THEN NaN
        ELSE IF \E i \in sel : beta[i].t = "nan" THEN NaN
        ELSE IF \E i \in sel : beta[i].t = "+inf" THEN PosInf
        ELSE Fin(MeanInt([k \in 1..Len(idx) |-> beta[idx[k]].v]))

\* self.correction.interpolate(pos, "linear", 0.0) at the position of particle i
CorrectionAt(e, x) == ToBeta(grid_interpolate(e.correction[1], x, Fin(0)))

\* beta = np.log(walker_density(pos, self.bw)), in 1/BetaUnit
log_density(parts, e) ==
    LET pos == [i \in DOMAIN parts |-> parts[i].pos]
    IN  [i \in DOMAIN parts |-> ToBeta(Log(walker_density(pos, e.bw)[i]))]

\* calc_betas after the logarithm of the density, adding the energies in the
\* multiplicative variant as well
betas_with_energy(logd, parts, e) ==
    LET pos == [i \in DOMAIN parts |-> parts[i].pos]
        withene == [i \in DOMAIN parts |-> FAdd(logd[i], EnergyTerm(parts[i].energy, e.kt))]
        withboth == [i \in DOMAIN parts |-> FAdd(withene[i], CorrectionAt(e, pos[i]))]
    IN  IF e.correction_variant = Some("additive") \/ ~TruthyStr(e.correction_variant)
        THEN LET centred == [i \in DOMAIN parts |-> FSub(withene[i], MeanNotNegInf(withene))]
             IN  IF e.correction_variant = Some("additive")
                 THEN [i \in DOMAIN parts |-> FAdd(centred[i], CorrectionAt(e, pos[i]))]
                 ELSE centred
        ELSE IF e.correction_variant = Some("multiplicative")
        THEN [i \in DOMAIN parts |-> FSub(withboth[i], MeanNotNegInf(withboth))]
        ELSE logd

\* calc_betas after the logarithm of the density: energies, mean and correction
betas_of_log_density(logd, parts, e) ==
    LET pos == [i \in DOMAIN parts |-> parts[i].pos]
        withene == [i \in DOMAIN parts |-> FAdd(logd[i], EnergyTerm(parts[i].energy, e.kt))]
        withcorr == [i \in DOMAIN parts |-> FAdd(logd[i], CorrectionAt(e, pos[i]))]
    IN  IF e.correction_variant = Some("additive") \/ ~TruthyStr(e.correction_variant)
        THEN LET centred == [i \in DOMAIN parts |-> FSub(withene[i], MeanNotNegInf(withene))]
             IN  IF e.correction_variant = Some("additive")
                 THEN [i \in DOMAIN parts |-> FAdd(centred[i], CorrectionAt(e, pos[i]))]
                 ELSE centred
        ELSE IF e.correction_variant = Some("multiplicative")
        THEN [i \in DOMAIN parts |-> FSub(withcorr[i], MeanNotNegInf(withcorr))]
        ELSE logd

\* calc_betas: the birth/death rate of every particle, in 1/BetaUnit
calc_betas(parts, e) == betas_of_log_density(log_density(parts, e), parts, e)

\* a probability that is defined for finite betas only
ProbFiniteOnly(b, e) ==
    IF b.t # "fin" THEN NaN
    ELSE Fin(Scale - ExpNeg((Abs(b.v) * e.dt * e.rate_fac) \div Fine))

\* 1 - exp(-|beta| * dt * rate_fac) in 1/Scale (dt * rate_fac >= 0)
Prob(b, e) ==
    IF b.t = "nan" THEN NaN
    ELSE IF b.t # "fin" THEN (IF e.dt * e.rate_fac = 0 THEN NaN ELSE Fin(Scale))
    ELSE Fin(Scale - ExpNeg((Abs(b.v) * e.dt * e.rate_fac) \div Fine))

\* values of rng.random(): uniform in [0, 1), in 1/Scale
Uniforms == {0, Scale \div 4, Scale - 1}

\* np.where(rand <= prob)[0]
EventParticles(beta, rand, e) ==
    {i \in DOMAIN beta : Prob(beta[i], e).t = "fin" /\ rand[i] <= Prob(beta[i], e).v}

\* the orders rng.shuffle can leave the candidates in
Shuffles(S) ==
    {s \in [1..Cardinality(S) -> S] : \A a, b \in 1..Cardinality(S) : s[a] = s[b] => a = b}

\* a membership test that never finds the index
InNoList(x, l) == FALSE

\* i in kill_list
InList(x, l) == \E k \in 1..Len(l) : l[k] = x

\* random_particle without the shift past the excluded index
random_particle_noshift(num_part, excl, num) == num

\* random_particle that shifts only the draws above the excluded index
random_particle_shift_above(num_part, excl, num) == IF num > excl THEN num + 1 ELSE num

\* random_particle: num is the value of rng.integers(num_part - 1)
random_particle(num_part, excl, num) == IF num >= excl THEN num + 1 ELSE num

\* what the selection loop has collected so far
LoopStart == [dup_list |-> <<>>, kill_list |-> <<>>, kill_count |-> 0, dup_count |-> 0,
              draws |-> 0, raised |-> ""]

\* the for loop of calculate_birth_death over the shuffled candidates: the set of
\* results over all values of rng.integers (which raises ValueError for an empty range)
RECURSIVE SelectLoop(_, _, _, _)
SelectLoop(beta, num_part, order, acc) ==
    IF order = <<>> THEN {acc}
    ELSE LET i == Head(order)
         IN  IF InList(i, acc.kill_list) THEN SelectLoop(beta, num_part, Tail(order), acc)
             ELSE IF FPos(beta[i])
             THEN IF num_part - 1 <= 0
                  THEN {[acc EXCEPT !.kill_list = Append(@, i), !.raised = "ValueError"]}
                  ELSE UNION {SelectLoop(beta, num_part, Tail(order),
                                  [acc EXCEPT !.kill_list = Append(@, i),
                                              !.dup_list = Append(@, random_particle(num_part, i, num)),
                                              !.kill_count = @ + 1,
                                              !.draws = @ + 1]) : num \in 0..(num_part - 2)}
             ELSE IF FNegative(beta[i])
             THEN IF num_part - 1 <= 0
                  THEN {[acc EXCEPT !.dup_list = Append(@, i), !.raised = "ValueError"]}
                  ELSE UNION {SelectLoop(beta, num_part, Tail(order),
                                  [acc EXCEPT !.dup_list = Append(@, i),
                                              !.kill_list = Append(@, random_particle(num_part, i, num)),
                                              !.dup_count = @ + 1,
                                              !.draws = @ + 1]) : num \in 0..(num_part - 2)}
             ELSE SelectLoop(beta, num_part, Tail(order), acc)

\* list(zip(dup_list, kill_list))
Zip(dup_list, kill_list) ==
    [k \in 1..Min({Len(dup_list), Len(kill_list)}) |-> <<dup_list[k], kill_list[k]>>]

\* np.count_nonzero(beta >= 0)
CountNonNegative(beta) ==
    Cardinality({i \in DOMAIN beta : FPos(beta[i]) \/ (beta[i].t = "fin" /\ beta[i].v = 0)})

\* np.count_nonzero(beta < 0): the comparison turned round
CountBelowZero(beta) == Cardinality({i \in DOMAIN beta : FNegative(beta[i])})

\* np.count_nonzero(beta > 0)
CountPositive(beta) == Cardinality({i \in DOMAIN beta : FPos(beta[i])})

\* calculate_birth_death: every result the generator's values allow. A result is the
\* returned list, the betas it was computed from, the statistics afterwards, the
\* number of generator calls made and the exception raised, if any
calculate_birth_death(parts, e, st) ==
    LET num_part == NumPart(parts)
        beta == calc_betas(parts, e)
        curr_kill_attempts == CountPositive(beta)
        loops == UNION {UNION {SelectLoop(beta, num_part, order, LoopStart) :
                                   order \in Shuffles(EventParticles(beta, rand, e))} :
                            rand \in [DOMAIN parts -> Uniforms]}
    IN  {[bd_events |-> IF r.raised = "" THEN Zip(r.dup_list, r.kill_list) ELSE <<>>,
          beta |-> beta,
          stats |-> [kill_attempts |-> st.kill_attempts + curr_kill_attempts,
                     dup_attempts |-> st.dup_attempts + (num_part - curr_kill_attempts),
                     kill_count |-> st.kill_count + r.kill_count,
                     dup_count |-> st.dup_count + r.dup_count],
          calls |-> 2 + r.draws,
          raised |-> r.raised] : r \in loops}

\* self.particles[kill] = self.particles[dup]: slot kill holds the object of slot dup
alias_assign(parts, dup, kill) == Canon([parts EXCEPT ![kill] = parts[dup]])

\* the assignment with the two indices exchanged: slot dup holds a copy of slot kill
deepcopy_into_dup(parts, dup, kill) ==
    Canon([parts EXCEPT ![dup] = [obj |-> -1, pos |-> parts[kill].pos,
                                  energy |-> parts[kill].energy]])

\* self.particles[kill] = copy.deepcopy(self.particles[dup]): slot kill holds a new
\* object with the values of the object in slot dup
deepcopy_assign(parts, dup, kill) ==
    Canon([parts EXCEPT ![kill] = [obj |-> -1, pos |-> parts[dup].pos,
                                   energy |-> parts[dup].energy]])

\* ---- statistics (BirthDeath.Stats)
ZeroStats == [dup_count |-> 0, dup_attempts |-> 0, kill_count |-> 0, kill_attempts |-> 0]

\* a / b of Python ints: the quotient num/den, or ZeroDivisionError
TrueDiv(a, b) ==
    IF b = 0 THEN [t |-> "ZeroDivisionError", num |-> 0, den |-> 0]
    ELSE [t |-> "fin", num |-> a, den |-> b]

\* a / b without the try
UnguardedDiv(a, b) == TrueDiv(a, b)

\* try: a / b  except ZeroDivisionError: np.nan
TryDiv(a, b) ==
    IF TrueDiv(a, b).t = "ZeroDivisionError" THEN [t |-> "nan", num |-> 0, den |-> 0]
    ELSE TrueDiv(a, b)

\* Stats.print before its reset: the row appended to the file, or the numbers written
\* to the screen
stats_print(st, stats_filename, step) ==
    IF TruthyStr(stats_filename)
    THEN [sink |-> "file",
          row |-> <<step, st.dup_count, st.dup_attempts, st.kill_count, st.kill_attempts>>]
    ELSE [sink |-> "screen",
          kill_perc |-> TryDiv(100 * st.kill_count, st.kill_attempts),
          dup_perc |-> TryDiv(100 * st.dup_count, st.dup_attempts),
          ratio_succ |-> TryDiv(st.dup_count, st.kill_count),
          ratio_attempts |-> TryDiv(st.dup_attempts, st.kill_attempts),
          after |-> step # 0]

\* the exception an uncaught division leaves Stats.print with
PrintRaised(out) ==
    IF out.sink = "screen"
       /\ \E q \in {out.kill_perc, out.dup_perc, out.ratio_succ, out.ratio_attempts} :
              q.t = "ZeroDivisionError"
    THEN "ZeroDivisionError" ELSE ""

\* ---- state
VARIABLES
    state,      \* "Unconfigured", "Ready" or "Invalid" (the constructor raised)
    args,       \* the arguments the constructor was called with
    eng,        \* the attributes of the BirthDeath instance
    particles,  \* the particle list shared with the MD
    stats,      \* self.stats: the four counters
    rng,        \* position of self.rng: the generator calls made so far
    pc,         \* "idle", or "apply" inside run() after the selection
    queue,      \* the events of bd_events that run() has still to apply
    step,       \* the argument of the run() call in progress
    ret,        \* the last call: its name, what it returned or printed or raised
    twin,       \* two further engine instances built with one seed, and their generators
    fn,         \* the last call of a function on its own: its name, arguments and result
    histo,      \* a Histogram instance
    bdld        \* a BirthDeathLangevinDynamics instance

vars == <<state, args, eng, particles, stats, rng, pc, queue, step, ret, twin, fn, histo, bdld>>

NoBeta == <<>>
NoOut == [sink |-> "none"]
Ret(op, bd_events, beta, out, raised, slot) ==
    [op |-> op, bd_events |-> bd_events, beta |-> beta, out |-> out, raised |-> raised,
     slot |-> slot]
RetOp(op) == Ret(op, <<>>, NoBeta, NoOut, "", -1)

\* ---- constructor arguments
BaseArgs ==
    [md_dt |-> 1, stride |-> 1, bw |-> <<1>>, kt |-> 1, rate_factor |-> NoneVal,
     correction_variant |-> NoneVal, eq_density |-> NoneVal, stats_stride |-> NoneVal,
     stats_filename |-> NoneVal]

\* the default arguments with one of them changed, and every correction variant
\* with and without an equilibrium density
ArgSet ==
    {BaseArgs}
    \cup {[BaseArgs EXCEPT !.md_dt = 0]}
    \cup {[BaseArgs EXCEPT !.stride = x] : x \in {0, 2}}
    \cup {[BaseArgs EXCEPT !.bw = x] : x \in {<<0>>, <<1, 1>>}}
    \cup {[BaseArgs EXCEPT !.kt = x] : x \in {-1, 0}}
    \cup {[BaseArgs EXCEPT !.rate_factor = x] : x \in {Some(0)}}
    \cup {[BaseArgs EXCEPT !.stats_stride = Some(2)]}
    \cup {[BaseArgs EXCEPT !.stats_filename = Some("bd_stats")]}
    \cup {[BaseArgs EXCEPT !.correction_variant = v, !.eq_density = d] :
              v \in {Some(""), Some("additive"), Some("multiplicative"), Some("other")},
              d \in {NoneVal} \cup {Some(g) : g \in EqDensities}}

\* the arguments that are tried with up to MaxPart particles
MainArgs == {BaseArgs}

ParticleLists == UNION {[0..(n - 1) -> ParticleValues] : n \in 1..MaxPart}

Init ==
    /\ state = "Unconfigured"
    /\ args = <<>>
    /\ eng = <<>>
    /\ particles = <<>>
    /\ stats = ZeroStats
    /\ rng = 0
    /\ pc = "idle"
    /\ queue = <<>>
    /\ step = 0
    /\ ret = RetOp("none")
    /\ twin = <<>>
    /\ fn = <<>>
    /\ histo = <<>>
    /\ bdld = <<>>

\* what BirthDeath.__init__ leaves: the instance's attributes, or the exception
\* (1 / kt, a variant without density, a variant that is not understood)
init_engine(a) ==
    LET e == [stride |-> a.stride, dt |-> a.md_dt * a.stride, bw |-> a.bw, kt |-> a.kt,
              rate_fac |-> IF TruthyNum(a.rate_factor) THEN a.rate_factor[1] ELSE 1,
              stats_stride |-> a.stats_stride, stats_filename |-> a.stats_filename,
              correction_variant |-> a.correction_variant, correction |-> NoneVal]
    IN  IF a.kt = 0 THEN [raised |-> "ZeroDivisionError", eng |-> <<>>]
        ELSE IF TruthyStr(a.correction_variant)
        THEN IF ~TruthyObj(a.eq_density) THEN [raised |-> "ValueError", eng |-> <<>>]
             ELSE IF a.correction_variant = Some("additive")
             THEN [raised |-> "",
                   eng |-> [e EXCEPT !.correction =
                                Some(calc_additive_correction(a.eq_density[1], a.bw))]]
             ELSE IF a.correction_variant = Some("multiplicative")
             THEN [raised |-> "",
                   eng |-> [e EXCEPT !.correction =
                                Some(calc_multiplicative_correction(a.eq_density[1], a.bw))]]
             ELSE [raised |-> "ValueError", eng |-> <<>>]
        ELSE [raised |-> "", eng |-> e]

\* BirthDeath(particles, md_dt, stride, bw, kt, ...)
Construct ==
    /\ state = "Unconfigured"
    /\ \E a \in ArgSet, vals \in ParticleLists :
        /\ a \in MainArgs \/ NumPart(vals) <= SmallPart
        /\ args' = a
        /\ particles' = NewParticles(vals)
        /\ eng' = init_engine(a).eng
        /\ state' = IF init_engine(a).raised = "" THEN "Ready" ELSE "Invalid"
        /\ ret' = Ret("init", <<>>, NoBeta, NoOut, init_engine(a).raised, -1)
    /\ stats' = ZeroStats
    /\ UNCHANGED <<twin, fn, histo, bdld, rng, pc, queue, step>>

\* calculate_birth_death() that applies its first event to the particles itself
CalculateBirthDeathApplying ==
    /\ state = "Ready" /\ pc = "idle" /\ rng < MaxDraws
    /\ \E r \in calculate_birth_death(particles, eng, stats) :
        /\ stats' = r.stats
        /\ rng' = rng + r.calls
        /\ ret' = Ret("calculate_birth_death", r.bd_events, r.beta, NoOut, r.raised, -1)
        /\ particles' = IF r.bd_events = <<>> THEN particles
                        ELSE deepcopy_assign(particles, r.bd_events[1][1], r.bd_events[1][2])
    /\ UNCHANGED <<twin, fn, histo, bdld, state, args, eng, pc, queue, step>>

\* BirthDeath.calculate_birth_death() called on its own
CalculateBirthDeath ==
    /\ state = "Ready" /\ pc = "idle" /\ rng < MaxDraws
    /\ \E r \in calculate_birth_death(particles, eng, stats) :
        /\ stats' = r.stats
        /\ rng' = rng + r.calls
        /\ ret' = Ret("calculate_birth_death", r.bd_events, r.beta, NoOut, r.raised, -1)
    /\ UNCHANGED <<twin, fn, histo, bdld, state, args, eng, particles, pc, queue, step>>

\* BirthDeath.run(step), up to the loop over the events
Run ==
    /\ state = "Ready" /\ pc = "idle"
    /\ \E s \in 0..MaxStep :
        IF eng.stride = 0
        THEN /\ ret' = Ret("run", <<>>, NoBeta, NoOut, "ZeroDivisionError", -1)
             /\ UNCHANGED <<stats, rng, pc, queue, step>>
        ELSE IF s % eng.stride = 0
        THEN /\ rng < MaxDraws
             /\ \E r \in calculate_birth_death(particles, eng, stats) :
                 /\ stats' = r.stats
                 /\ rng' = rng + r.calls
                 /\ ret' = Ret("run", r.bd_events, r.beta, NoOut, r.raised, -1)
                 /\ IF r.raised = ""
                    THEN pc' = "apply" /\ queue' = r.bd_events /\ step' = s
                    ELSE UNCHANGED <<pc, queue, step>>
        ELSE /\ ret' = RetOp("run")
             /\ pc' = "apply" /\ queue' = <<>> /\ step' = s
             /\ UNCHANGED <<stats, rng>>
    /\ UNCHANGED <<twin, fn, histo, bdld, state, args, eng, particles>>

\* one pass of the loop "for dup, kill in bd_events" of run()
ApplyEvent ==
    /\ pc = "apply" /\ queue # <<>>
    /\ particles' = deepcopy_assign(particles, Head(queue)[1], Head(queue)[2])
    /\ queue' = Tail(queue)
    /\ UNCHANGED <<twin, fn, histo, bdld, state, args, eng, stats, rng, pc, step, ret>>

\* the end of run(): the statistics, every stats_stride steps
RunStats ==
    /\ pc = "apply" /\ queue = <<>>
    /\ IF TruthyNum(eng.stats_stride) /\ step % eng.stats_stride[1] = 0
       THEN ret' = [ret EXCEPT !.out = stats_print(stats, eng.stats_filename, step),
                               !.raised = PrintRaised(stats_print(stats, eng.stats_filename, step))]
       ELSE ret' = ret
    /\ pc' = "idle"
    /\ step' = 0
    /\ UNCHANGED <<twin, fn, histo, bdld, state, args, eng, particles, stats, rng, queue>>

\* BirthDeath.final_run(step)
FinalRun ==
    /\ state = "Ready" /\ pc = "idle"
    /\ \E s \in 0..MaxStep :
        IF ~TruthyNum(eng.stats_stride)
        THEN ret' = Ret("final_run", <<>>, NoBeta, stats_print(stats, eng.stats_filename, s),
                        PrintRaised(stats_print(stats, eng.stats_filename, s)), -1)
        ELSE ret' = RetOp("final_run")
    /\ UNCHANGED <<twin, fn, histo, bdld, state, args, eng, particles, stats, rng, pc, queue, step>>

\* Stats.print(step, reset) that resets whatever its argument says
StatsPrintResetting ==
    /\ state = "Ready" /\ pc = "idle"
    /\ \E s \in 0..MaxStep, reset \in BOOLEAN :
        LET out == stats_print(stats, eng.stats_filename, s)
        IN  /\ ret' = Ret(IF reset THEN "print_reset" ELSE "print", <<>>, NoBeta, out,
                          PrintRaised(out), -1)
            /\ stats' = ZeroStats
    /\ UNCHANGED <<twin, fn, histo, bdld, state, args, eng, particles, rng, pc, queue, step>>

\* Stats.print(step, reset)
StatsPrint ==
    /\ state = "Ready" /\ pc = "idle"
    /\ \E s \in 0..MaxStep, reset \in BOOLEAN :
        LET out == stats_print(stats, eng.stats_filename, s)
        IN  /\ ret' = Ret(IF reset THEN "print_reset" ELSE "print", <<>>, NoBeta, out,
                          PrintRaised(out), -1)
            /\ stats' = IF reset /\ PrintRaised(out) = "" THEN ZeroStats ELSE stats
    /\ UNCHANGED <<twin, fn, histo, bdld, state, args, eng, particles, rng, pc, queue, step>>

\* Stats.reset()
StatsReset ==
    /\ state = "Ready" /\ pc = "idle"
    /\ stats' = ZeroStats
    /\ ret' = RetOp("reset")
    /\ UNCHANGED <<twin, fn, histo, bdld, state, args, eng, particles, rng, pc, queue, step>>

\* the MD integrator moves one particle: it changes the object in place
MdStep ==
    /\ state = "Ready" /\ pc = "idle"
    /\ \E i \in DOMAIN particles, v \in ParticleValues :
        /\ Val(particles[i]) # v
        /\ particles' = Mutate(particles, i, v)
        /\ ret' = Ret("md", <<>>, NoBeta, NoOut, "", i)
    /\ UNCHANGED <<twin, fn, histo, bdld, state, args, eng, stats, rng, pc, queue, step>>

Next ==
    \/ Construct
    \/ CalculateBirthDeath
    \/ Run
    \/ ApplyEvent
    \/ RunStats
    \/ FinalRun
    \/ StatsPrint
    \/ StatsReset
    \/ MdStep

Spec == Init /\ [][Next]_vars

\* ---- seeded generators: two engine instances constructed with the same seed
MaxSeed == 1        \* seeds are 0..MaxSeed
MaxCalls == 2       \* calculate_birth_death calls per instance of the pair

Seeds == 0..MaxSeed

\* the raw values of the stream of np.random.default_rng(seed): a function of the seed
\* and of the position in the stream
RawMod == 3 * 4
Raw(seed, k) == (7 * k + 5 * seed + seed * k * k + 3) % RawMod

\* rng.random(): the value a raw value gives, one of Uniforms
UniformSeq == <<0, Scale \div 4, Scale - 1>>
Uniform(raw) == UniformSeq[(raw % Len(UniformSeq)) + 1]

\* rng.random(num_part) from position pos: one raw value per particle
SeededRandom(idx, seed, pos) == [i \in idx |-> Uniform(Raw(seed, pos + i))]

\* rng.shuffle(x): for i = len(x) - 1 down to 1, swap x[i] with x[j], j drawn from 0..i
RECURSIVE SeededShuffle(_, _, _, _)
SeededShuffle(x, i, seed, pos) ==
    IF i < 1 THEN x
    ELSE LET j == Raw(seed, pos) % (i + 1)
             y == [x EXCEPT ![i + 1] = x[j + 1], ![j + 1] = x[i + 1]]
         IN  SeededShuffle(y, i - 1, seed, pos + 1)

\* raw values one shuffle of m elements consumes
ShuffleDraws(m) == IF m >= 1 THEN m - 1 ELSE 0

\* rng.integers(high): a value of 0..high-1, for high >= 1
SeededIntegers(high, seed, pos) == Raw(seed, pos) % high

\* the for loop of calculate_birth_death with the integers taken from the stream at
\* position pos onwards
RECURSIVE SeededLoop(_, _, _, _, _, _)
SeededLoop(beta, num_part, order, acc, seed, pos) ==
    IF order = <<>> THEN acc
    ELSE LET i == Head(order)
             num == SeededIntegers(num_part - 1, seed, pos + acc.draws)
         IN  IF InList(i, acc.kill_list)
             THEN SeededLoop(beta, num_part, Tail(order), acc, seed, pos)
             ELSE IF FPos(beta[i])
             THEN IF num_part - 1 <= 0
                  THEN [acc EXCEPT !.kill_list = Append(@, i), !.raised = "ValueError"]
                  ELSE SeededLoop(beta, num_part, Tail(order),
                           [acc EXCEPT !.kill_list = Append(@, i),
                                       !.dup_list = Append(@, random_particle(num_part, i, num)),
                                       !.kill_count = @ + 1,
                                       !.draws = @ + 1], seed, pos)
             ELSE IF FNegative(beta[i])
             THEN IF num_part - 1 <= 0
                  THEN [acc EXCEPT !.dup_list = Append(@, i), !.raised = "ValueError"]
                  ELSE SeededLoop(beta, num_part, Tail(order),
                           [acc EXCEPT !.dup_list = Append(@, i),
                                       !.kill_list = Append(@, random_particle(num_part, i, num)),
                                       !.dup_count = @ + 1,
                                       !.draws = @ + 1], seed, pos)
             ELSE SeededLoop(beta, num_part, Tail(order), acc, seed, pos)

\* calculate_birth_death of an instance whose generator is at position pos of the
\* stream of seed: the returned list, the betas, the exception, the position the
\* generator is left at and the generator calls made, in order
calculate_birth_death_seeded(parts, e, seed, pos) ==
    LET num_part == NumPart(parts)
        beta == calc_betas(parts, e)
        rand == SeededRandom(DOMAIN parts, seed, pos)
        event_particles == Sorted(EventParticles(beta, rand, e))
        m == Len(event_particles)
        order == SeededShuffle(event_particles, m - 1, seed, pos + num_part)
        r == SeededLoop(beta, num_part, order, LoopStart, seed,
                        pos + num_part + ShuffleDraws(m))
    IN  [bd_events |-> IF r.raised = "" THEN Zip(r.dup_list, r.kill_list) ELSE <<>>,
         beta |-> beta,
         raised |-> r.raised,
         pos |-> pos + num_part + ShuffleDraws(m) + r.draws,
         log |-> <<[call |-> "random", size |-> num_part], [call |-> "shuffle", size |-> m]>>
                 \o [k \in 1..r.draws |-> [call |-> "integers", size |-> 1]]]

\* self.rng of one global generator for all instances
shared_rng(who) == "a"

\* self.rng = np.random.default_rng(seed): a generator of the instance's own
default_rng(who) == who

Instances == {"a", "b"}

\* the arguments the pair is constructed with
TwinDensities ==
    { [n_points |-> <<2>>, lo |-> 0, hi |-> 1,
       data |-> [x \in 0..1 |-> IF x = 0 THEN Fin(9 * (Scale \div 10)) ELSE Fin(Scale \div 10)]] }

TwinArgs ==
    {BaseArgs}
    \cup {[BaseArgs EXCEPT !.correction_variant = Some("multiplicative"), !.eq_density = Some(g)] :
              g \in TwinDensities}

\* the particle lists handed to the two instances at one invocation: the same
\* positions, energies that may differ
TwinInputs ==
    {[a |-> va, b |-> vb] :
        va \in {v \in ParticleLists : NumPart(v) <= SmallPart},
        vb \in {v \in ParticleLists : NumPart(v) <= SmallPart}}

SamePositions(inp) ==
    /\ DOMAIN inp.a = DOMAIN inp.b
    /\ \A i \in DOMAIN inp.a : inp.a[i].pos = inp.b[i].pos

MainUnchanged == UNCHANGED <<state, args, eng, particles, stats, rng, pc, queue, step, ret>>

\* two instances BirthDeath(..., seed = seed) with equal arguments
TwinConstruct ==
    /\ twin = <<>>
    /\ \E seed \in Seeds, a \in TwinArgs :
        twin' = [seed |-> seed,
                 eng |-> init_engine(a).eng,
                 gen |-> [g \in Instances |-> 0],
                 rng |-> [who \in Instances |-> default_rng(who)],
                 out |-> [who \in Instances |-> <<>>],
                 inputs |-> <<>>]
    /\ MainUnchanged
    /\ UNCHANGED <<fn, histo, bdld>>

\* calculate_birth_death() of one instance of the pair; the k-th call of either
\* instance is on the k-th pair of particle lists
TwinCalculate ==
    /\ twin # <<>>
    /\ \E who \in Instances :
        LET k == Len(twin.out[who]) + 1
        IN  /\ k <= MaxCalls
            /\ \E inp \in TwinInputs :
                /\ SamePositions(inp)
                /\ IF k <= Len(twin.inputs) THEN inp = twin.inputs[k] ELSE TRUE
                /\ LET r == calculate_birth_death_seeded(NewParticles(inp[who]), twin.eng,
                                                         twin.seed, twin.gen[twin.rng[who]])
                   IN  twin' = [twin EXCEPT !.gen[twin.rng[who]] = r.pos,
                                            !.out[who] = Append(@, r),
                                            !.inputs = IF k <= Len(@) THEN @ ELSE Append(@, inp)]
    /\ MainUnchanged
    /\ UNCHANGED <<fn, histo, bdld>>

NextTwin ==
    \/ TwinConstruct
    \/ TwinCalculate

SpecTwin == Init /\ [][NextTwin]_vars

\* ---- Histogram (src/bdld/histogram.py), one dimension, integer bin edges
MaxBins == 2        \* n_bins is 1..MaxBins
MaxWidth == 2       \* bins are 1..MaxWidth wide
MaxEdge == 2        \* ranges start at -MaxEdge..MaxEdge-1; data points are around them
MaxAdds == 2        \* add() calls on one histogram
MaxData == 2        \* data points per add() call

\* the bin edges np.histogramdd makes of bins = n_bins and range = (lo, hi)
BinEdges(n_bins, lo, hi) == [k \in 0..n_bins |-> lo + k * ((hi - lo) \div n_bins)]

\* the bin of np.histogramdd a point falls in (the last bin holds its right edge), or
\* -1 for a point outside the edges
BinOf(x, bins, n_bins) ==
    IF x < bins[0] \/ x > bins[n_bins] THEN -1
    ELSE IF x = bins[n_bins] THEN n_bins - 1
    ELSE CHOOSE k \in 0..(n_bins - 1) : bins[k] <= x /\ x < bins[k + 1]

\* np.histogramdd(data, bins): the counts per bin
histogramdd(data, bins, n_bins) ==
    [k \in 0..(n_bins - 1) |-> Cardinality({d \in 1..Len(data) : BinOf(data[d], bins, n_bins) = k})]

DataPoints == (-(MaxEdge + 1))..(MaxEdge + MaxBins * MaxWidth)
DataLists == UNION {[1..n -> DataPoints] : n \in 1..MaxData}

HistoUnchanged ==
    /\ MainUnchanged
    /\ UNCHANGED <<twin, fn, bdld>>

\* Histogram(n_bins, ranges): the bins and the data are what np.histogramdd returns
\* for the single point np.zeros((1, n_dim))
HistogramInit ==
    /\ histo = <<>>
    /\ \E n_bins \in 1..MaxBins, lo \in (-MaxEdge)..(MaxEdge - 1), w \in 1..MaxWidth :
        LET hi == lo + n_bins * w
            bins == BinEdges(n_bins, lo, hi)
        IN  histo' = [n_points |-> n_bins, ranges |-> <<lo, hi>>, bins |-> bins,
                      data |-> histogramdd(<<0>>, bins, n_bins),
                      adds |-> 0, inside |-> 0]
    /\ HistoUnchanged

\* Histogram.add(data); inside counts the added points that fall inside the ranges
HistogramAdd ==
    /\ histo # <<>> /\ histo.adds < MaxAdds
    /\ \E data \in DataLists :
        LET tmp_histo == histogramdd(data, histo.bins, histo.n_points)
        IN  histo' = [histo EXCEPT
                !.data = [k \in DOMAIN histo.data |-> histo.data[k] + tmp_histo[k]],
                !.adds = @ + 1,
                !.inside = @ + Cardinality({d \in 1..Len(data) :
                                   histo.ranges[1] <= data[d] /\ data[d] <= histo.ranges[2]})]
    /\ HistoUnchanged

NextHisto ==
    \/ HistogramInit
    \/ HistogramAdd

SpecHisto == Init /\ [][NextHisto]_vars

\* ---- BirthDeathLangevinDynamics (src/bdld/bdld.py), potential of one dimension
MaxStride == 3      \* bd_stride is 0..MaxStride
MaxRun == 3         \* run(num_steps) with num_steps in 0..MaxRun
MaxRuns == 3        \* run() calls on one instance

BdldUnchanged ==
    /\ MainUnchanged
    /\ UNCHANGED <<twin, fn, histo>>

\* the parameter checks of setup(): the exception raised, if any
setup_checks(bd_stride, bd_bw) ==
    IF bd_stride # 0
    THEN IF 1 # Len(bd_bw) THEN "ValueError"
         ELSE IF \E k \in 1..Len(bd_bw) : bd_bw[k] <= 0 THEN "ValueError"
         ELSE ""
    ELSE ""

\* BirthDeathLangevinDynamics(ld, bd_stride, bd_bw): setup() builds self.bd when
\* bd_stride is not 0 and the bandwidths pass the checks
BdldInit ==
    /\ bdld = <<>>
    /\ \E bd_stride \in 0..MaxStride, bd_bw \in {<<0>>, <<1>>, <<1, 1>>} :
        bdld' = [raised |-> setup_checks(bd_stride, bd_bw),
                 bd_stride |-> bd_stride,
                 bd |-> bd_stride # 0 /\ setup_checks(bd_stride, bd_bw) = "",
                 total_steps |-> 0,
                 ld_steps |-> 0,
                 bd_steps |-> <<>>,
                 runs |-> <<>>]
    /\ BdldUnchanged

\* the global steps of the loop of run(): always 1, 2, ... num_steps
run_steps_from_one(total_steps, num_steps) == [k \in 1..num_steps |-> k]

\* range(self.total_steps + 1, self.total_steps + 1 + num_steps)
run_steps(total_steps, num_steps) == [k \in 1..num_steps |-> total_steps + k]

\* the steps of a list at which run() calls self.bd.step()
RECURSIVE bd_steps_of(_, _, _)
bd_steps_of(steps, bd, bd_stride) ==
    IF steps = <<>> THEN <<>>
    ELSE (IF bd /\ Head(steps) % bd_stride = 0 THEN <<Head(steps)>> ELSE <<>>)
         \o bd_steps_of(Tail(steps), bd, bd_stride)

\* BirthDeathLangevinDynamics.run(num_steps), no histogram: one self.ld.step() per
\* step, self.bd.step() on the steps bd_steps_of names
BdldRun ==
    /\ bdld # <<>> /\ bdld.raised = "" /\ Len(bdld.runs) < MaxRuns
    /\ \E num_steps \in 0..MaxRun :
        LET steps == run_steps(bdld.total_steps, num_steps)
        IN  bdld' = [bdld EXCEPT
                !.ld_steps = @ + Len(steps),
                !.bd_steps = @ \o bd_steps_of(steps, bdld.bd, bdld.bd_stride),
                !.total_steps = @ + num_steps,
                !.runs = Append(@, num_steps)]
    /\ BdldUnchanged

NextBdld ==
    \/ BdldInit
    \/ BdldRun

SpecBdld == Init /\ [][NextBdld]_vars

\* ---- functions called on their own, on arguments drawn from bounded sets
\* logarithms of densities, in 1/BetaUnit: of a density of 0, of one below 1 and of 1
LogDensities == {NegInf, Fin(-(4 * Fine)), Fin(0)}

\* the engines the functions are called on: no correction, additive, multiplicative
FnEngines ==
    {init_engine(a).eng :
        a \in {BaseArgs}
              \cup {[BaseArgs EXCEPT !.correction_variant = v, !.eq_density = Some(g)] :
                        v \in {Some("additive"), Some("multiplicative")}, g \in EqDensities}}

FnUnchanged ==
    /\ MainUnchanged
    /\ UNCHANGED <<twin, histo, bdld>>

\* calc_betas from line 175 on, on a given beta = log(density)
FnCalcBetas ==
    /\ fn = <<>>
    /\ \E vals \in ParticleLists, e \in FnEngines :
        \E logd \in [DOMAIN vals -> LogDensities] :
            fn' = [op |-> "calc_betas", parts |-> vals, e |-> e, logd |-> logd,
                   out |-> betas_of_log_density(logd, NewParticles(vals), e)]
    /\ FnUnchanged

\* positions of n_dim coordinates and positive bandwidths for them
MaxDim == 2
BwValues == {1, 2}
PositionLists(n_dim) == UNION {[0..(n - 1) -> [1..n_dim -> PosSet]] : n \in 1..MaxPart}

\* both density strategies on the same positions and bandwidths
FnWalkerDensity ==
    /\ fn = <<>>
    /\ \E n_dim \in 1..MaxDim :
        \E pos \in PositionLists(n_dim), bw \in [1..n_dim -> BwValues] :
            fn' = [op |-> "walker_density", pos |-> pos, bw |-> bw,
                   pdist |-> walker_density_pdist_nd(pos, bw),
                   manual |-> walker_density_manual_nd(pos, bw)]
    /\ FnUnchanged

\* calculate_birth_death from line 142 on: the betas of given log densities, the
\* values of rng.random, the order rng.shuffle leaves and the loop over the candidates
FnSelect ==
    /\ fn = <<>>
    /\ \E vals \in ParticleLists :
        \E logd \in [DOMAIN vals -> LogDensities], rand \in [DOMAIN vals -> Uniforms] :
            LET e == init_engine(BaseArgs).eng
                beta == betas_of_log_density(logd, NewParticles(vals), e)
            IN  \E order \in Shuffles(EventParticles(beta, rand, e)) :
                    \E r \in SelectLoop(beta, NumPart(vals), order, LoopStart) :
                        fn' = [op |-> "calculate_birth_death", e |-> e, logd |-> logd,
                               beta |-> beta, rand |-> rand, order |-> order,
                               dup_list |-> r.dup_list, kill_list |-> r.kill_list,
                               kill_count |-> r.kill_count, dup_count |-> r.dup_count,
                               raised |-> r.raised]
    /\ FnUnchanged

\* random_particle on every value rng.integers(num_part - 1) can return
FnRandomParticle ==
    /\ fn = <<>>
    /\ \E num_part \in 2..(MaxPart + 1) :
        \E excl \in 0..(num_part - 1) :
            fn' = [op |-> "random_particle", num_part |-> num_part, excl |-> excl,
                   out |-> [num \in 0..(num_part - 2) |->
                               random_particle(num_part, excl, num)]]
    /\ FnUnchanged

\* equilibrium densities on grids of few points, of 101 and of more than 101 points
CorrDensities ==
    {[g EXCEPT !.n_points = <<n>>] :
        g \in EqDensities \cup TwinDensities,
        n \in {2, SparseLimit - 1, SparseLimit, SparseLimit + 1, 2 * SparseLimit}}

\* the constructor with a correction variant: the grid of the convolution, the
\* correction on that grid and the correction the engine stores
FnCorrection ==
    /\ fn = <<>>
    /\ \E v \in {"additive", "multiplicative"}, g \in CorrDensities :
        LET a == [BaseArgs EXCEPT !.correction_variant = Some(v), !.eq_density = Some(g)]
            conv == dens_kernel_convolution(g, a.bw)
        IN  fn' = [op |-> "correction", variant |-> v, eq_density |-> g,
                   computed |-> IF v = "additive" THEN additive_correction_grid(g, a.bw)
                                ELSE neg_log_grid(conv),
                   stored |-> init_engine(a).eng.correction[1]]
    /\ FnUnchanged

NextFn ==
    \/ FnCorrection
    \/ FnCalcBetas
    \/ FnWalkerDensity
    \/ FnSelect
    \/ FnRandomParticle

SpecFn == Init /\ [][NextFn]_vars

\* ---- claims
\* the last call was a selection (on its own or inside run) that returned a list
SelectionReturned ==
    /\ state = "Ready"
    /\ ret.op \in {"calculate_birth_death", "run"}
    /\ ret.raised = ""

KillIndex(k) == ret.bd_events[k][2]
DupIndex(k) == ret.bd_events[k][1]

\* the engine was constructed with the default arguments: kT, bandwidth, timestep and
\* stride positive, no correction
DefaultEngine == args = BaseArgs

\* C1: in the list returned by one call of calculate_birth_death no particle index
\* is the kill index of two pairs (for n >= 2); stated for the default engine
C1_KillIndicesDisjoint ==
    (SelectionReturned /\ DefaultEngine /\ NumPart(particles) >= 2) =>
        \A a, b \in 1..Len(ret.bd_events) : a # b => KillIndex(a) # KillIndex(b)

\* C2: in every pair returned by calculate_birth_death the duplicate index differs
\* from the kill index (for n >= 2)
C2_DupDiffersFromKill ==
    (SelectionReturned /\ NumPart(particles) >= 2) =>
        \A k \in 1..Len(ret.bd_events) : DupIndex(k) # KillIndex(k)

\* C2 witness: a call returned a pair whose candidate was killed (beta > 0, partner
\* duplicated) and a pair whose candidate was duplicated (beta < 0, partner killed)
C2_Witness ==
    /\ SelectionReturned /\ ret.op = "calculate_birth_death"
    /\ NumPart(particles) >= 2
    /\ Len(ret.bd_events) >= 2
    /\ \E k \in 1..Len(ret.bd_events) : FPos(ret.beta[KillIndex(k)])
    /\ \E k \in 1..Len(ret.bd_events) : FNegative(ret.beta[DupIndex(k)])

\* C3: an engine constructed with rate_factor = 0 or with md_dt = 0 returns an empty
\* event list from every call of calculate_birth_death
C3_NoEventsAtZeroRate ==
    (/\ state = "Ready"
     /\ args.rate_factor = Some(0) \/ args.md_dt = 0
     /\ ret.op = "calculate_birth_death") => ret.bd_events = <<>>

\* the pair that the next pass of the loop in run() applies
NextPair == ret.bd_events[Len(ret.bd_events) - Len(queue) + 1]

\* one pass of the loop in run() is taken
LoopPass == pc = "apply" /\ queue # <<>> /\ queue' # queue

\* the MD changes a particle between two calls
MdChange == state = "Ready" /\ pc = "idle" /\ pc' = "idle" /\ particles' # particles

KnownVariants == {NoneVal, Some("additive"), Some("multiplicative")}

\* C5: construction fails whenever a correction variant is requested without an
\* equilibrium density and whenever the variant is not None, "additive" or
\* "multiplicative"
C5_BadVariantRejected ==
    (/\ state # "Unconfigured"
     /\ \/ args.correction_variant \notin KnownVariants
        \/ (args.correction_variant # NoneVal /\ args.eq_density = NoneVal)) =>
        state = "Invalid"

\* C6: construction fails for a non-positive kT, a non-positive bandwidth entry, a
\* bandwidth whose length is not the particles' dimensionality (1), a non-positive
\* MD timestep and a non-positive stride
C6_InvalidArgumentsRejected ==
    state = "Ready" =>
        /\ args.kt > 0
        /\ \A k \in 1..Len(args.bw) : args.bw[k] > 0
        /\ Len(args.bw) = 1
        /\ args.md_dt > 0
        /\ args.stride > 0

\* a selection is made (calculate_birth_death, on its own or inside run): only a
\* selection moves the generator
SelectionMade == rng' # rng

CountNotPositive(beta) ==
    Cardinality({i \in DOMAIN beta : beta[i].t = "-inf" \/ (beta[i].t = "fin" /\ beta[i].v <= 0)})

C8_SelectionFrame ==
    [][SelectionMade =>
          /\ particles' = particles
          /\ eng' = eng
          /\ state' = state
          /\ args' = args
      ]_vars

\* C8 witness: a second selection call, on an engine with a correction grid, has
\* returned events
C8_Witness ==
    /\ ret.op = "calculate_birth_death" /\ ret.raised = ""
    /\ ret.bd_events # <<>>
    /\ eng.correction # NoneVal
    /\ stats.kill_attempts + stats.dup_attempts = 2 * NumPart(particles)

PrintOps == {"print", "print_reset", "final_run", "run"}

\* Stats.print has written to the screen
ScreenPrint == ret'.op \in PrintOps /\ ret'.out.sink = "screen" /\ ret' # ret

\* q is 100 * count / attempts, or nan when attempts = 0
IsQuotient(q, num, den) ==
    /\ q.t = "nan" <=> den = 0
    /\ den # 0 => (q.t = "fin" /\ q.den # 0 /\ q.num * den = num * q.den)

\* C9: Stats.print to the screen never raises; the percentages are 100 * count /
\* attempts, and each percentage and ratio is nan exactly when its denominator is 0
C9_PrintNeverRaises ==
    [][ScreenPrint =>
          /\ ret'.raised = ""
          /\ IsQuotient(ret'.out.kill_perc, 100 * stats.kill_count, stats.kill_attempts)
          /\ IsQuotient(ret'.out.dup_perc, 100 * stats.dup_count, stats.dup_attempts)
          /\ IsQuotient(ret'.out.ratio_succ, stats.dup_count, stats.kill_count)
          /\ IsQuotient(ret'.out.ratio_attempts, stats.dup_attempts, stats.kill_attempts)
      ]_vars

\* C9 witness: a report with a percentage that is a number and a ratio that is nan
C9_Witness ==
    /\ ret.op = "print" /\ ret.out.sink = "screen"
    /\ ret.out.dup_perc.t = "fin" /\ ret.out.dup_perc.num > 0
    /\ ret.out.kill_perc.t = "fin"
    /\ ret.out.ratio_succ.t = "nan"

Counters == {"dup_count", "dup_attempts", "kill_count", "kill_attempts"}

\* C10: the counters are 0 after construction and after reset(); run,
\* calculate_birth_death and print(reset = False) never decrease a counter, and
\* print without reset leaves all four unchanged
C10_CountersAccumulate ==
    /\ [](ret.op \in {"init", "reset", "print_reset"} /\ ret.raised = ""
              => stats = ZeroStats)
    /\ [][/\ ret'.op \in {"calculate_birth_death", "run", "print", "final_run"} =>
                \A c \in Counters : stats'[c] >= stats[c]
          /\ ret'.op \in {"print", "final_run"} => stats' = stats
         ]_vars

\* C10 witness: a report without reset after selections that counted an event
C10_Witness ==
    /\ ret.op = "print"
    /\ stats.kill_count + stats.dup_count >= 1
    /\ stats.kill_attempts + stats.dup_attempts >= 2 * NumPart(particles)

\* ---- C11
TwinCalls(who) == IF twin = <<>> THEN 0 ELSE Len(twin.out[who])

\* the two instances were given the same particle states at the invocations 1..k
SameStatesUpTo(k) == \A j \in 1..k : twin.inputs[j].a = twin.inputs[j].b

\* the generator calls of one invocation: n uniforms, one shuffle, one integer per pair
ExpectedLog(r) ==
    <<[call |-> "random", size |-> Cardinality(DOMAIN r.beta)], "shuffle">>
    \o [k \in 1..Len(r.bd_events) |-> [call |-> "integers", size |-> 1]]

LogOf(r) == [k \in 1..Len(r.log) |-> IF r.log[k].call = "shuffle" THEN "shuffle" ELSE r.log[k]]

\* C11: two instances constructed with the same seed and given the same particle
\* states at each invocation return the same lists, however their invocations are
\* interleaved; each call draws n uniforms, then one shuffle, then one integer per
\* pair, and its result is one calculate_birth_death can return
C11_SeededInstancesAgree ==
    twin # <<>> =>
        /\ \A k \in 1..Min({TwinCalls("a"), TwinCalls("b")}) :
               SameStatesUpTo(k) =>
                   /\ twin.out["a"][k].bd_events = twin.out["b"][k].bd_events
                   /\ twin.out["a"][k].raised = twin.out["b"][k].raised
                   /\ twin.out["a"][k].pos = twin.out["b"][k].pos
        /\ \A who \in Instances : \A k \in 1..TwinCalls(who) :
               LET r == twin.out[who][k]
               IN  /\ r.raised = "" => LogOf(r) = ExpectedLog(r)
                   /\ \E c \in calculate_birth_death(NewParticles(twin.inputs[k][who]),
                                                     twin.eng, ZeroStats) :
                          /\ c.bd_events = r.bd_events
                          /\ c.raised = r.raised
                          /\ c.calls = Len(r.log) + (IF r.raised = "" THEN 0 ELSE 1)

\* C11 witness: both instances were invoked twice on the same states, one of them
\* twice before the other once; the two invocations were on equal states and
\* returned different non-empty lists
C11_Witness ==
    /\ TwinCalls("a") = 2 /\ TwinCalls("b") = 2
    /\ SameStatesUpTo(2)
    /\ twin.inputs[1] = twin.inputs[2]
    /\ twin.out["b"][1].bd_events # <<>>
    /\ twin.out["b"][2].bd_events # <<>>
    /\ twin.out["b"][1].bd_events # twin.out["b"][2].bd_events

\* ---- C12
\* calc_betas was called on an engine without correction
PlainBetas == fn # <<>> /\ fn.op = "calc_betas" /\ ~TruthyStr(fn.e.correction_variant)

\* log(density) + energy / kT of particle i: the entry before the mean is subtracted
BeforeMean(i) == FAdd(fn.logd[i], EnergyTerm(fn.parts[i].energy, fn.e.kt))

NotNegInf(beta) == {i \in DOMAIN beta : beta[i].t # "-inf"}

SumOver(beta, S) == SumSeq([k \in 1..Cardinality(S) |-> beta[Sorted(S)[k]].v])

\* C12: without correction, when an entry is finite before the mean is subtracted,
\* the returned entries that are not -inf are finite and sum to 0, they are the
\* entries that were not -inf before the subtraction, shifted by one common value,
\* and the entries that were -inf are still -inf
C12_PlainBetasMeanZero ==
    (PlainBetas /\ \E i \in DOMAIN fn.out : IsFin(BeforeMean(i))) =>
        /\ \A i \in NotNegInf(fn.out) : IsFin(fn.out[i])
        /\ SumOver(fn.out, NotNegInf(fn.out)) = 0
        /\ \A i \in DOMAIN fn.out : BeforeMean(i).t = "-inf" <=> fn.out[i].t = "-inf"
        /\ \A i, j \in NotNegInf(fn.out) :
               fn.out[i].v - fn.out[j].v = BeforeMean(i).v - BeforeMean(j).v

\* C12 witness: betas with an entry -inf and two different finite entries
C12_Witness ==
    /\ PlainBetas
    /\ \E i \in DOMAIN fn.out : fn.out[i].t = "-inf"
    /\ \E i, j \in DOMAIN fn.out : IsFin(fn.out[i]) /\ IsFin(fn.out[j]) /\ fn.out[i].v > fn.out[j].v

\* ---- C13
MultiplicativePair == twin # <<>> /\ twin.eng.correction_variant = Some("multiplicative")

\* C13: in the multiplicative variant two instances with generators in the same
\* state, called on particles with the same positions whatever their energies,
\* compute the same betas and return the same list
C13_EnergyIgnored ==
    MultiplicativePair =>
        \A k \in 1..Min({TwinCalls("a"), TwinCalls("b")}) :
            /\ twin.out["a"][k].beta = twin.out["b"][k].beta
            /\ twin.out["a"][k].bd_events = twin.out["b"][k].bd_events
            /\ twin.out["a"][k].pos = twin.out["b"][k].pos

\* C13 witness: both instances were called on particles with different energies and
\* returned a pair
C13_Witness ==
    /\ MultiplicativePair
    /\ TwinCalls("a") >= 1 /\ TwinCalls("b") >= 1
    /\ \E i \in DOMAIN twin.inputs[1].a :
           twin.inputs[1].a[i].energy # twin.inputs[1].b[i].energy
    /\ \E i, j \in DOMAIN twin.inputs[1].a :
           twin.inputs[1].a[i].energy # twin.inputs[1].a[j].energy
    /\ twin.out["a"][1].bd_events # <<>>

\* ---- C14
DensitiesComputed == fn # <<>> /\ fn.op = "walker_density"

\* fixed-point values that differ by rounding only
Close(x, y) == Abs(x - y) <= 2

\* the kernel at the displacement between particles i and j
KernelAt(i, j) ==
    calc_kernel_nd([k \in 1..Len(fn.bw) |-> fn.pos[i][k] - fn.pos[j][k]], fn.bw)

BinTotal == SumSeq([k \in 1..histo.n_points |-> histo.data[k - 1]])

\* C15: a new Histogram has count 0 in every bin, so the total of the bin counts is
\* always the number of added data points that fall inside the ranges
C15_HistogramStartsEmpty ==
    histo # <<>> =>
        /\ histo.adds = 0 => \A k \in DOMAIN histo.data : histo.data[k] = 0
        /\ BinTotal = histo.inside

\* ---- C16
\* the steps 1..n that are multiples of the stride, in increasing order
MultiplesUpTo(n, stride) == Sorted({i \in 1..n : i % stride = 0})

\* C16: over any sequence of run(num_steps) calls, num_steps >= 0, total_steps is the
\* sum of all num_steps, the dynamics made that many steps, and the birth/death step
\* was performed exactly at the global steps i >= 1 with i % bd_stride = 0
C16_StepsCountedAcrossRuns ==
    (bdld # <<>> /\ bdld.raised = "") =>
        /\ bdld.total_steps = SumSeq(bdld.runs)
        /\ bdld.ld_steps = bdld.total_steps
        /\ bdld.bd_stride # 0 => bdld.bd_steps = MultiplesUpTo(bdld.total_steps, bdld.bd_stride)
        /\ bdld.bd_stride = 0 => bdld.bd_steps = <<>>

\* C16 witness: a stride of 3, and after a first run that performed no birth/death
\* step a second run that performed it on a step that is not its own third
C16_Witness ==
    /\ bdld # <<>> /\ bdld.raised = ""
    /\ bdld.bd_stride = 3
    /\ Len(bdld.runs) = 2
    /\ bdld.runs[1] = 2
    /\ bdld.bd_steps = <<3>>

\* ---- C17
FiniteEntries(beta) == {i \in DOMAIN beta : IsFin(beta[i])}

\* the last call was a selection of an engine with the additive correction
AdditiveBetas ==
    /\ state = "Ready"
    /\ ret.op \in {"calculate_birth_death", "run"} /\ ret.beta # NoBeta
    /\ eng.correction_variant = Some("additive")

\* C17: in the additive variant the betas calc_betas returns have mean 0 over their
\* finite entries (the mean subtracted is that of log(density) + energy / kT +
\* correction)
C17_AdditiveBetasMeanZero ==
    AdditiveBetas => SumOver(ret.beta, FiniteEntries(ret.beta)) = 0

\* ---- C18
\* the selection loop was run on its own
SelectionRun == fn # <<>> /\ fn.op = "calculate_birth_death"

\* walks the candidates in processing order with k the next pair to be produced: a
\* candidate that is the kill index of one of the pairs before k, or whose beta is 0,
\* produces nothing; any other candidate produces pair k, as its kill index when its
\* beta is positive and as its duplicate index when negative
RECURSIVE OnePairEach(_, _, _, _, _)
OnePairEach(beta, order, dups, kills, k) ==
    IF order = <<>> THEN k = Len(kills) + 1 /\ Len(dups) = Len(kills)
    ELSE LET i == Head(order)
         IN  IF (\E j \in 1..(k - 1) : j <= Len(kills) /\ kills[j] = i) \/ beta[i] = Fin(0)
             THEN OnePairEach(beta, Tail(order), dups, kills, k)
             ELSE /\ k <= Len(kills) /\ k <= Len(dups)
                  /\ \/ FPos(beta[i]) /\ kills[k] = i
                     \/ FNegative(beta[i]) /\ dups[k] = i
                  /\ OnePairEach(beta, Tail(order), dups, kills, k + 1)

\* C18: processing the shuffled candidates in order, a candidate already consumed as
\* the kill index of an earlier pair of the call produces no pair and increments no
\* counter, and every other candidate with beta != 0 produces exactly one pair,
\* appended in processing order
C18_ConsumedCandidatesSkipped ==
    SelectionRun /\ fn.raised = "" =>
        /\ OnePairEach(fn.beta, fn.order, fn.dup_list, fn.kill_list, 1)
        /\ fn.kill_count + fn.dup_count = Len(fn.kill_list)

\* a later candidate with beta != 0 was consumed by the first pair, and a further
\* candidate produced the second pair
C18_Witness ==
    /\ SelectionRun /\ fn.raised = ""
    /\ Len(fn.kill_list) >= 2
    /\ \E p \in 2..Len(fn.order) :
        /\ fn.kill_list[1] = fn.order[p]
        /\ fn.beta[fn.order[p]] # Fin(0)

\* ---- C19
\* random_particle was applied to every draw
PartnersDrawn == fn # <<>> /\ fn.op = "random_particle"

\* C19: for n >= 2 and 0 <= excl < n, random_particle(n, excl) maps the draws 0..n-2
\* one-to-one onto the indices of 0..n-1 other than excl: draw d gives d if d < excl
\* and d + 1 otherwise, the result is in range and never excl, and each valid partner
\* is produced by exactly one draw
C19_PartnerBijection ==
    PartnersDrawn =>
        /\ \A d \in DOMAIN fn.out :
            /\ fn.out[d] = IF d < fn.excl THEN d ELSE d + 1
            /\ fn.out[d] \in 0..(fn.num_part - 1)
            /\ fn.out[d] # fn.excl
        /\ \A t \in (0..(fn.num_part - 1)) \ {fn.excl} :
            Cardinality({d \in DOMAIN fn.out : fn.out[d] = t}) = 1

\* an excluded index with draws below it and draws at or above it
C19_Witness ==
    /\ PartnersDrawn
    /\ \E d \in DOMAIN fn.out : d < fn.excl
    /\ \E d \in DOMAIN fn.out : d >= fn.excl

\* ---- C20
\* the pair candidate i produces when its turn comes, walking the candidates in
\* processing order with k the next pair to be produced: 0 if i is then the kill index
\* of an earlier pair, or is not a candidate
RECURSIVE OwnPair(_, _, _, _, _)
OwnPair(beta, order, kills, k, i) ==
    IF order = <<>> THEN 0
    ELSE LET c == Head(order)
             consumed == \E j \in 1..(k - 1) : j <= Len(kills) /\ kills[j] = c
         IN  IF c = i THEN (IF consumed THEN 0 ELSE k)
             ELSE IF consumed \/ beta[c] = Fin(0)
             THEN OwnPair(beta, Tail(order), kills, k, i)
             ELSE OwnPair(beta, Tail(order), kills, k + 1, i)

\* particles of the selection whose beta is -infinity
NegInfBetas == {i \in DOMAIN fn.beta : fn.beta[i] = NegInf}

\* C20: with dt * rate_fac > 0 a particle whose beta is -infinity raises no error, has
\* probability 1 by the ordinary formula, is an event candidate whatever its uniform
\* draw, and unless it was consumed as a kill index earlier in the call it yields a
\* pair in which it is the duplicate index
C20_NegInfBetaDuplicates ==
    SelectionRun /\ fn.e.dt * fn.e.rate_fac > 0 =>
        \A i \in NegInfBetas :
            LET k == OwnPair(fn.beta, fn.order, fn.kill_list, 1, i)
            IN  /\ fn.raised = ""
                /\ Prob(fn.beta[i], fn.e) = Fin(Scale)
                /\ InList(i, fn.order)
                /\ \/ k = 0 /\ InList(i, fn.kill_list)
                   \/ /\ k \in 1..Len(fn.dup_list) /\ k <= Len(fn.kill_list)
                      /\ fn.dup_list[k] = i /\ fn.kill_list[k] # i

\* a particle of beta -infinity with the largest uniform draw produced its own pair,
\* and another one was consumed before its turn
C20_Witness ==
    /\ SelectionRun /\ fn.raised = ""
    /\ \E i \in NegInfBetas :
        /\ fn.rand[i] = Scale - 1
        /\ OwnPair(fn.beta, fn.order, fn.kill_list, 1, i) > 0
    /\ \E i \in NegInfBetas : OwnPair(fn.beta, fn.order, fn.kill_list, 1, i) = 0

\* ---- C21
\* an engine was constructed with a correction variant
CorrectionBuilt == fn # <<>> /\ fn.op = "correction"

\* some axis of the grid has more than 101 points
SomeAxisLarge(g) == \E k \in 1..Len(g.n_points) : g.n_points[k] > SparseLimit

C22_CountsWithinAttempts ==
    [][SelectionMade =>
          /\ stats'.kill_count <= stats'.kill_attempts
          /\ stats'.dup_count <= stats'.dup_attempts
          /\ ret'.raised = "" =>
                 /\ Len(ret'.bd_events) = (stats'.kill_count - stats.kill_count)
                                            + (stats'.dup_count - stats.dup_count)
                 /\ Len(ret'.bd_events) <= NumPart(particles)
      ]_vars

\* a call returned a kill pair and a duplication pair on top of earlier events, with
\* attempts that did not all succeed
C22_Witness ==
    /\ SelectionReturned
    /\ Len(ret.bd_events) >= 2
    /\ stats.kill_count + stats.dup_count > Len(ret.bd_events)
    /\ stats.kill_count >= 1 /\ stats.dup_count >= 1
    /\ stats.kill_count < stats.kill_attempts

\* ---- C23
\* a step of run(): its entry, a pass of its loop over the events, or its end
RunStep == ret'.op = "run"

\* the kill indices of the events of the run in progress
KillIndices == {ret.bd_events[k][2] : k \in 1..Len(ret.bd_events)}

\* the step of the run is not a multiple of the stride
OffStride ==
    /\ eng.stride # 0
    /\ \/ pc = "apply" /\ step % eng.stride # 0
       \/ pc = "idle" /\ pc' = "apply" /\ step' % eng.stride # 0

====
